---- MODULE Spec2Model ----
(***************************************************************************)
(* Model of the Sudoku constraint-propagation core of                      *)
(* geraldyong/OpenAI_Sudoku_Agentic: src/backend/sudoku_ms.py (the         *)
(* microservice copy) and src/python/sudoku.py (the standalone copy).      *)
(*                                                                         *)
(* A puzzle is the Python dict  cell key -> {value, candidates}.  Keys and *)
(* unit references are strings; they are modelled as sequences of          *)
(* one-character strings so that formatting (f"R{r}C{c}") and parsing      *)
(* (re.match, int()) are computed, not assumed.  value None is written 0   *)
(* (the loader maps the token "0" to None, so 0 is never a stored digit).  *)
(* candidates is a Python list: a sequence, with list.remove removing the  *)
(* first occurrence.                                                       *)
(***************************************************************************)
EXTENDS Integers, Sequences, FiniteSets, TLC

VARIABLES puzzle, before, last, nops

vars == <<puzzle, before, last, nops>>

-----------------------------------------------------------------------------
(* Program constants *)

\* range(1, 10): rows, columns, digits and unit indices run over 1..N
N == 9
\* the 3x3 block geometry: (row_num - 1) // 3, block_row * 3 + 1
B == 3
\* value None of an unsolved cell
None == 0

-----------------------------------------------------------------------------
(* Strings as sequences of characters *)

DigitChars == <<"0", "1", "2", "3", "4", "5", "6", "7", "8", "9">>

IsDigitChar(ch) == \E i \in 1..Len(DigitChars) : DigitChars[i] = ch

DigitVal(ch) == (CHOOSE i \in 1..Len(DigitChars) : DigitChars[i] = ch) - 1

\* str(n) for an int, as f"{n}" formats it
RECURSIVE IntToStr(_)
IntToStr(n) ==
    IF n < 0 THEN <<"-">> \o IntToStr(-n)
    ELSE IF n < 10 THEN <<DigitChars[n + 1]>>
    ELSE IntToStr(n \div 10) \o <<DigitChars[(n % 10) + 1]>>

\* int(s) for a string of decimal digits
RECURSIVE StrToInt(_)
StrToInt(s) ==
    IF Len(s) = 0 THEN 0
    ELSE 10 * StrToInt(SubSeq(s, 1, Len(s) - 1)) + DigitVal(s[Len(s)])

\* length of the longest run of digit characters of s starting at position i
RECURSIVE DigitRun(_, _)
DigitRun(s, i) ==
    IF i <= Len(s) /\ IsDigitChar(s[i]) THEN 1 + DigitRun(s, i + 1) ELSE 0

\* s.strip() for the blank " "
RECURSIVE Strip(_)
Strip(s) ==
    IF Len(s) > 0 /\ s[1] = " " THEN Strip(Tail(s))
    ELSE IF Len(s) > 0 /\ s[Len(s)] = " " THEN Strip(SubSeq(s, 1, Len(s) - 1))
    ELSE s

\* int(s) of a str: blanks around are dropped, one sign may lead, then
\* decimal digits follow, single underscores allowed between two digits.
\* The result is [ok, value]; ok = FALSE stands for ValueError.
IntLiteral(s) ==
    LET t == Strip(s)
        signed == Len(t) > 0 /\ t[1] \in {"+", "-"}
        body == IF signed THEN Tail(t) ELSE t
        digits == SelectSeq(body, LAMBDA ch : ch # "_")
        grouped == \A i \in 1..Len(body) :
                       body[i] = "_" =>
                           /\ 1 < i /\ i < Len(body)
                           /\ IsDigitChar(body[i - 1])
                           /\ IsDigitChar(body[i + 1])
        ok == /\ Len(digits) > 0
              /\ \A i \in 1..Len(digits) : IsDigitChar(digits[i])
              /\ grouped
    IN  IF ~ok THEN [ok |-> FALSE, value |-> 0]
        ELSE [ok |-> TRUE,
              value |-> IF signed /\ t[1] = "-" THEN -StrToInt(digits)
                        ELSE StrToInt(digits)]

\* f"R{r}C{c}"
CellKey(r, c) == <<"R">> \o IntToStr(r) \o <<"C">> \o IntToStr(c)

\* re.match(r"R(\d+)C(\d+)", cell_ref): anchored at the start only; each \d+
\* is greedy, so it takes the whole run of digits.  The result is
\* [ok, row, col] with row = int(group(1)), col = int(group(2)).
MatchCellRef(cell_ref) ==
    LET n1 == DigitRun(cell_ref, 2)
        cpos == 2 + n1
        n2 == DigitRun(cell_ref, cpos + 1)
    IN  IF /\ Len(cell_ref) >= 1
           /\ cell_ref[1] = "R"
           /\ n1 >= 1
           /\ cpos <= Len(cell_ref)
           /\ cell_ref[cpos] = "C"
           /\ n2 >= 1
        THEN [ok |-> TRUE,
              row |-> StrToInt(SubSeq(cell_ref, 2, cpos - 1)),
              col |-> StrToInt(SubSeq(cell_ref, cpos + 1, cpos + n2))]
        ELSE [ok |-> FALSE, row |-> 0, col |-> 0]

-----------------------------------------------------------------------------
(* Python list operations used on candidate lists *)

\* d in lst
In(d, lst) == \E i \in 1..Len(lst) : lst[i] = d

\* lst.remove(d): removes the first occurrence (d is known to be in lst)
Remove(lst, d) ==
    LET i == CHOOSE k \in 1..Len(lst) :
                 lst[k] = d /\ \A j \in 1..(k - 1) : lst[j] # d
    IN  SubSeq(lst, 1, i - 1) \o SubSeq(lst, i + 1, Len(lst))

\* [d for d in range(1, 10) if d not in used]
RECURSIVE Unused(_, _)
Unused(d, used) ==
    IF d > N THEN <<>>
    ELSE (IF d \in used THEN <<>> ELSE <<d>>) \o Unused(d + 1, used)

Range(s) == {s[i] : i \in 1..Len(s)}

-----------------------------------------------------------------------------
(* Grid geometry *)

\* mutant: the block column is taken modulo 3 instead of divided by 3
get_units_for_cell_BlockModulo(cell_ref) ==
    LET m == MatchCellRef(cell_ref)
        row_num == m.row
        col_num == m.col
        block_row == (row_num - 1) \div B
        block_col == (col_num - 1) % B
        row_start == block_row * B + 1
        col_start == block_col * B + 1
    IN  IF ~m.ok
        THEN [ok |-> FALSE, row |-> <<>>, col |-> <<>>, block |-> <<>>]
        ELSE [ok |-> TRUE,
              row |-> [c \in 1..N |-> CellKey(row_num, c)],
              col |-> [r \in 1..N |-> CellKey(r, col_num)],
              block |-> [i \in 1..(B * B) |->
                            CellKey(row_start + ((i - 1) \div B),
                                    col_start + ((i - 1) % B))]]

\* get_units_for_cell(cell_ref): the lists "row", "col", "block", or the
\* ValueError of a reference the pattern does not match (ok = FALSE)
get_units_for_cell(cell_ref) ==
    LET m == MatchCellRef(cell_ref)
        row_num == m.row
        col_num == m.col
        block_row == (row_num - 1) \div B
        block_col == (col_num - 1) \div B
        row_start == block_row * B + 1
        col_start == block_col * B + 1
    IN  IF ~m.ok
        THEN [ok |-> FALSE, row |-> <<>>, col |-> <<>>, block |-> <<>>]
        ELSE [ok |-> TRUE,
              row |-> [c \in 1..N |-> CellKey(row_num, c)],
              col |-> [r \in 1..N |-> CellKey(r, col_num)],
              block |-> [i \in 1..(B * B) |->
                            CellKey(row_start + ((i - 1) \div B),
                                    col_start + ((i - 1) % B))]]

\* mutant: the column is left out of the units
UnitCells_NoColumn(cell_ref) ==
    LET u == get_units_for_cell(cell_ref)
    IN  u.row \o u.block

\* mutant: the block is left out of the units
UnitCells_NoBlock(cell_ref) ==
    LET u == get_units_for_cell(cell_ref)
    IN  u.row \o u.col

\* units.values() flattened in iteration order: row, then col, then block
UnitCells(cell_ref) ==
    LET u == get_units_for_cell(cell_ref)
    IN  u.row \o u.col \o u.block

\* the keys of a loaded puzzle, in the loader's insertion order (row-major)
KeyOrder == [i \in 1..(N * N) |-> CellKey(((i - 1) \div N) + 1, ((i - 1) % N) + 1)]

Keys == Range(KeyOrder)

\* the flattened units of every key, computed once
UnitTable == [k \in Keys |-> UnitCells(k)]

-----------------------------------------------------------------------------
(* Loader *)

\* read_puzzle_from_text on 9 rows of 9 tokens; a token is written as its
\* digit, 0 for "_" or "0".  Every cell starts with candidates = [].
read_puzzle(rows) ==
    [k \in Keys |->
        LET m == MatchCellRef(k)
        IN  [value |-> rows[m.row][m.col], candidates |-> <<>>]]

-----------------------------------------------------------------------------
(* Candidate engine *)

\* mutant: the digits of the column are not collected
UsedDigits_RowBlockOnly(p, cell_ref) ==
    LET unit == UnitTable[cell_ref]
    IN  {p[unit[i]].value :
            i \in {j \in 1..Len(unit) :
                      (j <= N \/ j > 2 * N) /\ p[unit[j]].value # None}}

\* used_digits of compute_candidates for one unsolved cell
UsedDigits(p, cell_ref) ==
    LET unit == UnitTable[cell_ref]
    IN  {p[unit[i]].value : i \in {j \in 1..Len(unit) : p[unit[j]].value # None}}

\* mutant: an Unsolved cell keeps only those of its present candidates that
\* no peer holds
compute_candidates_KeepNarrowing(p) ==
    [k \in DOMAIN p |->
        IF p[k].value # None
        THEN [p[k] EXCEPT !.candidates = <<>>]
        ELSE [p[k] EXCEPT !.candidates =
                 SelectSeq(Unused(1, UsedDigits(p, k)),
                           LAMBDA d : In(d, p[k].candidates))]]

\* compute_candidates(puzzle): values are never written, so the order in
\* which the cells are visited does not matter
compute_candidates(p) ==
    [k \in DOMAIN p |->
        IF p[k].value # None
        THEN [p[k] EXCEPT !.candidates = <<>>]
        ELSE [p[k] EXCEPT !.candidates = Unused(1, UsedDigits(p, k))]]

-----------------------------------------------------------------------------
(* Mutation engine *)

\* The in-place execution of one operation is threaded through a record:
\*   puzzle  the dict as mutated so far
\*   err     "ok", or the exception that is propagating
\*   stack   the activations of assign_digit, innermost last: the cell and
\*           digit of the call and the position i its loop over the peers
\*           has reached in the flattened units
\*   trace   one entry per call of assign_digit: the cell, the digit, the
\*           depth of the call (1 = called by the operation itself) and
\*           whether the cell was Unsolved when the call was made
\*   progress, sweeps  the flag of scan_and_assign and the sweeps it made
Exec(p) ==
    [puzzle |-> p, err |-> "ok", stack |-> <<>>, trace |-> <<>>,
     progress |-> FALSE, sweeps |-> 0]

Raise(st, e) == [st EXCEPT !.err = e]

\* F(v) with v evaluated once, before F is
Bind(v, F(_)) == CHOOSE r \in {F(x) : x \in {v}} : TRUE

\* mutant: the value is stored but the candidates are not cleared
SetSolved_KeepCandidates(p, cell_ref, digit) ==
    [p EXCEPT ![cell_ref].value = digit]

\* mutant: the candidates are cleared but the value is not stored
SetSolved_NoValue(p, cell_ref, digit) ==
    [p EXCEPT ![cell_ref].candidates = <<>>]

\* cell["value"] = digit; cell["candidates"] = []
SetSolved(p, cell_ref, digit) ==
    [p EXCEPT ![cell_ref] = [value |-> digit, candidates |-> <<>>]]

\* mutant: the candidate check is made before the already-solved check
assign_enter_CandidateFirst(st, cell_ref, digit) ==
    LET p == st.puzzle
        st1 == [st EXCEPT !.trace = Append(@,
                   [cell |-> cell_ref, digit |-> digit,
                    depth |-> Len(st.stack) + 1,
                    unsolved |-> cell_ref \in DOMAIN p /\ p[cell_ref].value = None])]
    IN  IF cell_ref \notin DOMAIN p THEN Raise(st1, "UnknownCell")
        ELSE IF ~In(digit, p[cell_ref].candidates) THEN Raise(st1, "NotACandidate")
        ELSE IF p[cell_ref].value # None THEN Raise(st1, "AlreadySolved")
        ELSE [st1 EXCEPT !.puzzle = SetSolved(p, cell_ref, digit),
                         !.stack = Append(@, [cell |-> cell_ref, digit |-> digit,
                                              i |-> 1])]

\* mutant: only the unknown-cell check guards the assignment
assign_enter_Overwrite(st, cell_ref, digit) ==
    LET p == st.puzzle
        st1 == [st EXCEPT !.trace = Append(@,
                   [cell |-> cell_ref, digit |-> digit,
                    depth |-> Len(st.stack) + 1,
                    unsolved |-> cell_ref \in DOMAIN p /\ p[cell_ref].value = None])]
    IN  IF cell_ref \notin DOMAIN p THEN Raise(st1, "UnknownCell")
        ELSE [st1 EXCEPT !.puzzle = SetSolved(p, cell_ref, digit),
                         !.stack = Append(@, [cell |-> cell_ref, digit |-> digit,
                                              i |-> 1])]

\* a call of assign_digit(puzzle, cell_ref, digit): the three checks, the
\* assignment, and the activation that starts its loop over the peers
assign_enter(st, cell_ref, digit) ==
    LET p == st.puzzle
        st1 == [st EXCEPT !.trace = Append(@,
                   [cell |-> cell_ref, digit |-> digit,
                    depth |-> Len(st.stack) + 1,
                    unsolved |-> cell_ref \in DOMAIN p /\ p[cell_ref].value = None])]
    IN  IF cell_ref \notin DOMAIN p THEN Raise(st1, "UnknownCell")
        ELSE IF p[cell_ref].value # None THEN Raise(st1, "AlreadySolved")
        ELSE IF ~In(digit, p[cell_ref].candidates) THEN Raise(st1, "NotACandidate")
        ELSE [st1 EXCEPT !.puzzle = SetSolved(p, cell_ref, digit),
                         !.stack = Append(@, [cell |-> cell_ref, digit |-> digit,
                                              i |-> 1])]

\* mutant: a peer left without a candidate makes the call fail
assign_peer_Contradiction(st, cell_ref, digit, peer_ref) ==
    LET p == st.puzzle
    IN  IF peer_ref = cell_ref THEN st
        ELSE IF peer_ref \notin DOMAIN p THEN Raise(st, "KeyError")
        ELSE IF p[peer_ref].value = None /\ In(digit, p[peer_ref].candidates)
        THEN LET cands == Remove(p[peer_ref].candidates, digit)
                 st1 == [st EXCEPT !.puzzle[peer_ref].candidates = cands]
             IN  IF Len(cands) = 1
                 THEN assign_enter(st1, peer_ref, cands[1])
                 ELSE IF Len(cands) = 0 THEN Raise(st1, "Contradiction")
                 ELSE st1
        ELSE st

\* mutant: the digit is removed but a peer left with one candidate is not
\* assigned
assign_peer_NoCascade(st, cell_ref, digit, peer_ref) ==
    LET p == st.puzzle
    IN  IF peer_ref = cell_ref THEN st
        ELSE IF peer_ref \notin DOMAIN p THEN Raise(st, "KeyError")
        ELSE IF p[peer_ref].value = None /\ In(digit, p[peer_ref].candidates)
        THEN [st EXCEPT !.puzzle[peer_ref].candidates =
                            Remove(p[peer_ref].candidates, digit)]
        ELSE st

\* the body of the loop of assign_digit(puzzle, cell_ref, digit) for one
\* peer_ref: the removal of digit from an Unsolved peer and, if exactly one
\* candidate is left, the recursive call
assign_peer(st, cell_ref, digit, peer_ref) ==
    LET p == st.puzzle
    IN  IF peer_ref = cell_ref THEN st
        ELSE IF peer_ref \notin DOMAIN p THEN Raise(st, "KeyError")
        ELSE IF p[peer_ref].value = None /\ In(digit, p[peer_ref].candidates)
        THEN LET cands == Remove(p[peer_ref].candidates, digit)
                 st1 == [st EXCEPT !.puzzle[peer_ref].candidates = cands]
             IN  IF Len(cands) = 1
                 THEN assign_enter(st1, peer_ref, cands[1])
                 ELSE st1
        ELSE st

\* one iteration of the loop of the innermost activation, or its return once
\* the loop is over; a raised exception unwinds every activation
assign_step(st) ==
    IF st.err # "ok" \/ Len(st.stack) = 0 THEN st
    ELSE LET top == st.stack[Len(st.stack)]
             unit == UnitTable[top.cell]
         IN  IF top.i > Len(unit)
             THEN [st EXCEPT !.stack = SubSeq(@, 1, Len(@) - 1)]
             ELSE assign_peer([st EXCEPT !.stack[Len(st.stack)].i = top.i + 1],
                              top.cell, top.digit, unit[top.i])

\* the most steps a call of assign_digit can take if every call solves a
\* cell: per cell one activation, its loop over the units and its return
StepCap == N * N * (3 * N + 1)

\* k steps of the activations (the range is halved so that the evaluation
\* nests only a few levels however deep the cascade is)
RECURSIVE assign_run(_, _)
assign_run(st, k) ==
    Bind(st, LAMBDA s :
        IF s.err # "ok" \/ Len(s.stack) = 0 \/ k <= 0 THEN s
        ELSE IF k = 1 THEN assign_step(s)
        ELSE assign_run(assign_run(s, k \div 2), k - (k \div 2)))

\* assign_digit(puzzle, cell_ref, digit), called with no activation pending:
\* the call runs until it returns or raises
assign_digit(st, cell_ref, digit) ==
    Bind(assign_run(assign_enter(st, cell_ref, digit), StepCap), LAMBDA r :
        IF r.err = "ok" /\ Len(r.stack) > 0 THEN Raise(r, "NoTermination") ELSE r)

\* mutant: a cell left with one candidate is assigned it whether or not the
\* digit was one of its candidates
eliminate_digit_AssignAnyway(st, cell_ref, digit) ==
    LET p == st.puzzle
        cands == IF In(digit, p[cell_ref].candidates)
                 THEN Remove(p[cell_ref].candidates, digit)
                 ELSE p[cell_ref].candidates
        st1 == [st EXCEPT !.puzzle[cell_ref].candidates = cands]
    IN  IF cell_ref \notin DOMAIN p THEN Raise(st, "UnknownCell")
        ELSE IF p[cell_ref].value # None THEN Raise(st, "CannotEliminateSolved")
        ELSE IF Len(cands) = 1 THEN assign_digit(st1, cell_ref, cands[1])
        ELSE st1

\* mutant: a Solved cell is not refused
eliminate_digit_NoSolvedCheck(st, cell_ref, digit) ==
    LET p == st.puzzle
    IN  IF cell_ref \notin DOMAIN p THEN Raise(st, "UnknownCell")
        ELSE IF In(digit, p[cell_ref].candidates)
        THEN LET cands == Remove(p[cell_ref].candidates, digit)
                 st1 == [st EXCEPT !.puzzle[cell_ref].candidates = cands]
             IN  IF Len(cands) = 1
                 THEN assign_digit(st1, cell_ref, cands[1])
                 ELSE st1
        ELSE st

\* mutant: the first candidate is removed, whatever the digit
eliminate_digit_PopFirst(st, cell_ref, digit) ==
    LET p == st.puzzle
    IN  IF cell_ref \notin DOMAIN p THEN Raise(st, "UnknownCell")
        ELSE IF p[cell_ref].value # None THEN Raise(st, "CannotEliminateSolved")
        ELSE IF Len(p[cell_ref].candidates) > 0
        THEN LET cands == Tail(p[cell_ref].candidates)
                 st1 == [st EXCEPT !.puzzle[cell_ref].candidates = cands]
             IN  IF Len(cands) = 1
                 THEN assign_digit(st1, cell_ref, cands[1])
                 ELSE st1
        ELSE st

\* eliminate_digit of src/backend/sudoku_ms.py
eliminate_digit(st, cell_ref, digit) ==
    LET p == st.puzzle
    IN  IF cell_ref \notin DOMAIN p THEN Raise(st, "UnknownCell")
        ELSE IF p[cell_ref].value # None THEN Raise(st, "CannotEliminateSolved")
        ELSE IF In(digit, p[cell_ref].candidates)
        THEN LET cands == Remove(p[cell_ref].candidates, digit)
                 st1 == [st EXCEPT !.puzzle[cell_ref].candidates = cands]
             IN  IF Len(cands) = 1
                 THEN assign_digit(st1, cell_ref, cands[1])
                 ELSE st1
        ELSE st

\* eliminate_digit of src/python/sudoku.py: the removal only
eliminate_digit_cli(st, cell_ref, digit) ==
    LET p == st.puzzle
    IN  IF cell_ref \notin DOMAIN p THEN Raise(st, "UnknownCell")
        ELSE IF p[cell_ref].value # None THEN Raise(st, "CannotEliminateSolved")
        ELSE IF In(digit, p[cell_ref].candidates)
        THEN [st EXCEPT !.puzzle[cell_ref].candidates =
                            Remove(p[cell_ref].candidates, digit)]
        ELSE st

\* the guard that stops a runaway while loop of the model
SweepCap == N * N + 2

\* scan_and_assign: the sweep over positions lo..hi of list(puzzle.items()),
\* in order (the range is halved to keep the evaluation shallow); st.progress
\* is the flag `progress`
RECURSIVE scan_sweep(_, _, _)
scan_sweep(st, lo, hi) ==
    Bind(st, LAMBDA s :
        IF s.err # "ok" \/ lo > hi THEN s
        ELSE IF lo = hi
        THEN LET cell_ref == KeyOrder[lo]
                 cell == s.puzzle[cell_ref]
             IN  IF cell.value = None /\ Len(cell.candidates) = 1
                 THEN [assign_digit(s, cell_ref, cell.candidates[1])
                          EXCEPT !.progress = TRUE]
                 ELSE s
        ELSE LET mid == (lo + hi) \div 2
             IN  scan_sweep(scan_sweep(s, lo, mid), mid + 1, hi))

\* the while loop of scan_and_assign; st.sweeps counts the sweeps made
RECURSIVE scan_loop(_)
scan_loop(st) ==
    Bind(st, LAMBDA s :
        IF s.err # "ok" THEN s
        ELSE IF s.sweeps >= SweepCap THEN Raise(s, "NoTermination")
        ELSE Bind(scan_sweep([s EXCEPT !.progress = FALSE], 1, Len(KeyOrder)),
                  LAMBDA r :
                      IF r.progress
                      THEN scan_loop([r EXCEPT !.sweeps = @ + 1])
                      ELSE [r EXCEPT !.sweeps = @ + 1]))

\* mutant: one sweep, over the cells of the first row only
scan_and_assign_FirstRow(st) ==
    [scan_sweep(st, 1, N) EXCEPT !.sweeps = 1]

\* scan_and_assign(puzzle)
scan_and_assign(st) == scan_loop(st)

-----------------------------------------------------------------------------
(* Consistency checker *)

\* f"R{i}", f"C{i}", f"B{i}"
UnitRef(tag, i) == <<tag>> \o IntToStr(i)

\* unit_ref[0].upper() for the letters a unit reference can start with
Upper(ch) ==
    CASE ch = "r" -> "R"
      [] ch = "c" -> "C"
      [] ch = "b" -> "B"
      [] OTHER -> ch

\* mutant: the first column of a block is derived like its first row
get_unit_BlockColumn(p, unit_ref) ==
    LET unit_type == Upper(unit_ref[1])
        rest == SubSeq(unit_ref, 2, Len(unit_ref))
        index == IntLiteral(rest).value
        row_start == ((index - 1) \div B) * B + 1
        col_start == ((index - 1) \div B) * B + 1
        keys == CASE unit_type = "R" -> [c \in 1..N |-> CellKey(index, c)]
                  [] unit_type = "C" -> [r \in 1..N |-> CellKey(r, index)]
                  [] OTHER -> [i \in 1..(B * B) |->
                                  CellKey(row_start + ((i - 1) \div B),
                                          col_start + ((i - 1) % B))]
        found == SelectSeq(keys, LAMBDA k : k \in DOMAIN p)
        none == [k \in {} |-> k]
    IN  IF Len(unit_ref) = 0
        THEN [err |-> "IndexError", keys |-> <<>>, unit |-> none]
        ELSE IF ~IntLiteral(rest).ok
        THEN [err |-> "InvalidUnitReference", keys |-> <<>>, unit |-> none]
        ELSE IF unit_type \notin {"R", "C", "B"}
        THEN [err |-> "InvalidUnitReference", keys |-> <<>>, unit |-> none]
        ELSE [err |-> "ok", keys |-> found,
              unit |-> [k \in Range(found) |-> p[k]]]

\* get_unit(puzzle, unit_ref): the keys of the unit that are in the puzzle,
\* in order, and the dict `unit` from these keys to their cells, or the
\* error raised
get_unit(p, unit_ref) ==
    LET unit_type == Upper(unit_ref[1])
        rest == SubSeq(unit_ref, 2, Len(unit_ref))
        index == IntLiteral(rest).value
        row_start == ((index - 1) \div B) * B + 1
        col_start == ((index - 1) % B) * B + 1
        keys == CASE unit_type = "R" -> [c \in 1..N |-> CellKey(index, c)]
                  [] unit_type = "C" -> [r \in 1..N |-> CellKey(r, index)]
                  [] OTHER -> [i \in 1..(B * B) |->
                                  CellKey(row_start + ((i - 1) \div B),
                                          col_start + ((i - 1) % B))]
        found == SelectSeq(keys, LAMBDA k : k \in DOMAIN p)
        none == [k \in {} |-> k]
    IN  IF Len(unit_ref) = 0
        THEN [err |-> "IndexError", keys |-> <<>>, unit |-> none]
        ELSE IF ~IntLiteral(rest).ok
        THEN [err |-> "InvalidUnitReference", keys |-> <<>>, unit |-> none]
        ELSE IF unit_type \notin {"R", "C", "B"}
        THEN [err |-> "InvalidUnitReference", keys |-> <<>>, unit |-> none]
        ELSE [err |-> "ok", keys |-> found,
              unit |-> [k \in Range(found) |-> p[k]]]

\* mutant: the blocks are left out
UnitRefs_NoBlocks ==
    [i \in 1..(2 * N) |->
        IF i <= N THEN UnitRef("R", i) ELSE UnitRef("C", i - N)]

\* unit_refs of the two checkers: rows, then columns, then blocks
UnitRefs ==
    [i \in 1..(3 * N) |->
        IF i <= N THEN UnitRef("R", i)
        ELSE IF i <= 2 * N THEN UnitRef("C", i - N)
        ELSE UnitRef("B", i - 2 * N)]

\* the inner loop of check_strict_consistency over one unit from position j,
\* `seen` being the digits met so far: FALSE as soon as a digit repeats
RECURSIVE strict_unit(_, _, _, _)
strict_unit(p, keys, j, seen) ==
    IF j > Len(keys) THEN TRUE
    ELSE LET digit == p[keys[j]].value
         IN  IF digit # None
             THEN IF digit \in seen THEN FALSE
                  ELSE strict_unit(p, keys, j + 1, seen \cup {digit})
             ELSE strict_unit(p, keys, j + 1, seen)

\* check_strict_consistency(puzzle)
RECURSIVE strict_units(_, _)
strict_units(p, i) ==
    IF i > Len(UnitRefs) THEN TRUE
    ELSE IF ~strict_unit(p, get_unit(p, UnitRefs[i]).keys, 1, {}) THEN FALSE
    ELSE strict_units(p, i + 1)

check_strict_consistency(p) == strict_units(p, 1)

\* mutant: the candidates of every cell of the unit count, Solved or not
check_candidate_consistency_AnyCell(p) ==
    \A i \in 1..Len(UnitRefs) :
        LET unit_cells == get_unit(p, UnitRefs[i])
            solved_digits == {unit_cells.unit[k].value :
                                 k \in {x \in DOMAIN unit_cells.unit :
                                            unit_cells.unit[x].value # None}}
        IN  \A d \in 1..N :
                d \notin solved_digits =>
                    \E j \in 1..Len(unit_cells.keys) :
                        In(d, unit_cells.unit[unit_cells.keys[j]].candidates)

\* check_candidate_consistency(puzzle): False as soon as a unit has a digit
\* that is not in solved_digits and that no cell of the unit with value None
\* has among its candidates
check_candidate_consistency(p) ==
    \A i \in 1..Len(UnitRefs) :
        LET unit_cells == get_unit(p, UnitRefs[i])
            solved_digits == {unit_cells.unit[k].value :
                                 k \in {x \in DOMAIN unit_cells.unit :
                                            unit_cells.unit[x].value # None}}
        IN  \A d \in 1..N :
                d \notin solved_digits =>
                    \E j \in 1..Len(unit_cells.keys) :
                        /\ unit_cells.unit[unit_cells.keys[j]].value = None
                        /\ In(d, unit_cells.unit[unit_cells.keys[j]].candidates)

-----------------------------------------------------------------------------
(* Inputs *)

\* the puzzle of the end-to-end scenario (row 1 = 5 3 _ _ 7 _ _ _ _)
Scenario ==
    << <<5, 3, 0, 0, 7, 0, 0, 0, 0>>,
       <<6, 0, 0, 1, 9, 5, 0, 0, 0>>,
       <<0, 9, 8, 0, 0, 0, 0, 6, 0>>,
       <<8, 0, 0, 0, 6, 0, 0, 0, 3>>,
       <<4, 0, 0, 8, 0, 3, 0, 0, 1>>,
       <<7, 0, 0, 0, 2, 0, 0, 0, 6>>,
       <<0, 6, 0, 0, 0, 0, 2, 8, 0>>,
       <<0, 0, 0, 4, 1, 9, 0, 0, 5>>,
       <<0, 0, 0, 0, 8, 0, 0, 7, 9>> >>

\* its solution: every unit a permutation of 1..9
Solution ==
    << <<5, 3, 4, 6, 7, 8, 9, 1, 2>>,
       <<6, 7, 2, 1, 9, 5, 3, 4, 8>>,
       <<1, 9, 8, 3, 4, 2, 5, 6, 7>>,
       <<8, 5, 9, 7, 6, 1, 4, 2, 3>>,
       <<4, 2, 6, 8, 5, 3, 7, 9, 1>>,
       <<7, 1, 3, 9, 2, 4, 8, 5, 6>>,
       <<9, 6, 1, 5, 3, 7, 2, 8, 4>>,
       <<2, 8, 7, 4, 1, 9, 6, 3, 5>>,
       <<3, 4, 5, 2, 8, 6, 1, 7, 9>> >>

\* Solution with the cells holding digit d blanked in the rows rows[d]
Blank(rows) ==
    [r \in 1..N |-> [c \in 1..N |->
        IF Solution[r][c] \in DOMAIN rows /\ r \in rows[Solution[r][c]]
        THEN 0 ELSE Solution[r][c]]]

\* Solution with the tokens at the given <<row, col, token>> places replaced
Override(places) ==
    [r \in 1..N |-> [c \in 1..N |->
        IF \E t \in places : t[1] = r /\ t[2] = c
        THEN (CHOOSE t \in places : t[1] = r /\ t[2] = c)[3]
        ELSE Solution[r][c]]]

\* the digits 1, 2, 3 are blanked in no row, in the top band or everywhere
RowChoices == {{}, 1..B, 1..N}

\* grids holding a digit twice in one row only, one column only, one block
\* only, and in a row, a column and a block at once
Wrong ==
    { {<<1, 1, 7>>, <<6, 1, 0>>, <<2, 2, 0>>},
      {<<1, 1, 8>>, <<1, 6, 0>>, <<3, 3, 0>>},
      {<<1, 1, 9>>, <<1, 7, 0>>, <<7, 1, 0>>},
      {<<1, 1, 3>>} }

\* the text files the loader is given
Grids ==
    {Scenario}
      \cup {Blank([d \in 1..B |-> rows[d]]) : rows \in [1..B -> RowChoices]}
      \cup {Override(places) : places \in Wrong}

\* the largest digit a caller passes
MaxDigitInput == 4

\* the number of operations in one run
MaxOps == 3

\* cell references the caller passes: cells of row 1 and block 1 that the
\* grids blank, a cell every grid gives, and a reference outside the grid
CellInputs ==
    {CellKey(1, 2), CellKey(1, 8), CellKey(1, 9), CellKey(2, 3),
     CellKey(1, 1), CellKey(10, 1)}

DigitInputs == 1..MaxDigitInput

\* the puzzle a client of the endpoints holds after load and
\* compute_candidates
Computed(g) == compute_candidates(read_puzzle(g))

\* the keys of the i-th unit of unit_refs, written out
UnitOf(i) ==
    IF i <= N THEN {CellKey(i, c) : c \in 1..N}
    ELSE IF i <= 2 * N THEN {CellKey(r, i - N) : r \in 1..N}
    ELSE {CellKey(((i - 2 * N - 1) \div B) * B + dr,
                  ((i - 2 * N - 1) % B) * B + dc) : dr \in 1..B, dc \in 1..B}

\* a client strikes digit d from the candidates of the cells `cells`
Strike(p, d, cells) ==
    [k \in DOMAIN p |->
        IF k \in cells /\ In(d, p[k].candidates)
        THEN [p[k] EXCEPT !.candidates = Remove(@, d)]
        ELSE p[k]]

\* a client pencils the candidates cands on cell k
Pencil(p, k, cands) == [p EXCEPT ![k].candidates = cands]

\* the puzzles posted to the read-only endpoints (PuzzleInput accepts any
\* dict of cells): computed puzzles, the puzzle with 1, 2, 3 blanked with a
\* digit struck from a whole unit or from one cell, and puzzles with
\* candidates pencilled on a Solved cell
PuzzleInputs ==
    LET open == Computed(Blank([d \in 1..B |-> 1..N]))
    IN  {Computed(Scenario), Computed(Solution), open}
          \cup {Strike(open, d, UnitOf(i)) : d \in 1..B, i \in 1..(3 * N)}
          \cup {Strike(open, d, {CellKey(1, 8)}) : d \in 1..B}
          \cup {Pencil(Strike(open, d, UnitOf(1)), CellKey(1, 1), <<d>>) :
                    d \in 1..B}
          \cup {Pencil(open, CellKey(1, 1), <<1, 2>>)}

\* unit references passed to get_unit: every tag in both cases with the
\* indices 0..10, and references of other shapes
UnitRefInputs ==
    {UnitRef(t, i) : t \in {"R", "C", "B", "r", "c", "b"}, i \in 0..(N + 1)}
      \cup { <<"C", "1", "2">>, <<"X", "1">>, <<"R">>, <<"R", "1", "x">>,
             <<"R", "-", "1">>, <<"R", "+", "5">>, <<"R", " ", "5">>,
             <<"B", "1", "_", "0">>, <<"B", "_", "1">> }

\* cell references passed to get_units_for_cell: every key of the grid, and
\* references of other shapes
CellRefInputs ==
    Keys \cup { CellKey(0, 5), CellKey(10, 1), CellKey(1, 12), CellKey(1, 0),
                CellKey(1, 1) \o <<"x">>, CellKey(1, 1) \o <<"0">>,
                <<"R", "0", "1", "C", "1">>, <<"R", "5">>, <<"R", "1", "C">>,
                <<"x">> \o CellKey(1, 1), <<"r", "1", "c", "1">>, <<>> }

-----------------------------------------------------------------------------
(* State machine: one action per operation of the core.                    *)
(*   puzzle  the caller's puzzle, mutated in place by the operations       *)
(*   before  the puzzle as it was when the last operation was called       *)
(*   last    the last operation: its arguments, the exception it raised    *)
(*           ("ok" if none), its boolean result, the calls of assign_digit *)
(*           it made, the sweeps of scan_and_assign                        *)
(*   nops    the number of operations called so far                        *)

Done(op, cell_ref, digit, st, result) ==
    [op |-> op, cell |-> cell_ref, digit |-> digit, err |-> st.err,
     result |-> result, trace |-> st.trace, sweeps |-> st.sweeps]

Idle == Done("none", <<>>, 0, Exec(<<>>), TRUE)

Init ==
    /\ \E g \in Grids : puzzle = read_puzzle(g)
    /\ before = puzzle
    /\ last = Idle
    /\ nops = 0

\* an operation is called once the caller has taken the previous result
Step == /\ last = Idle
        /\ nops < MaxOps
        /\ nops' = nops + 1
        /\ before' = puzzle

\* the caller takes the result and keeps the puzzle
Return ==
    /\ last # Idle
    /\ last' = Idle
    /\ before' = puzzle
    /\ UNCHANGED <<puzzle, nops>>

ComputeCandidates ==
    /\ Step
    /\ puzzle' = compute_candidates(puzzle)
    /\ last' = Done("compute_candidates", <<>>, 0, Exec(puzzle), TRUE)

Assign ==
    /\ Step
    /\ \E cell_ref \in CellInputs, digit \in DigitInputs :
         \E st \in {assign_digit(Exec(puzzle), cell_ref, digit)} :
             /\ puzzle' = st.puzzle
             /\ last' = Done("assign_digit", cell_ref, digit, st, TRUE)

Eliminate ==
    /\ Step
    /\ \E cell_ref \in CellInputs, digit \in DigitInputs :
         \E st \in {eliminate_digit(Exec(puzzle), cell_ref, digit)} :
             /\ puzzle' = st.puzzle
             /\ last' = Done("eliminate_digit", cell_ref, digit, st, TRUE)

EliminateCli ==
    /\ Step
    /\ \E cell_ref \in CellInputs, digit \in DigitInputs :
         \E st \in {eliminate_digit_cli(Exec(puzzle), cell_ref, digit)} :
             /\ puzzle' = st.puzzle
             /\ last' = Done("eliminate_digit_cli", cell_ref, digit, st, TRUE)

ScanAndAssign ==
    /\ Step
    /\ \E r \in {scan_and_assign(Exec(puzzle))} :
           /\ puzzle' = r.puzzle
           /\ last' = Done("scan_and_assign", <<>>, 0, r, TRUE)

CheckStrict ==
    /\ Step
    /\ puzzle' = puzzle
    /\ last' = Done("check_strict_consistency", <<>>, 0, Exec(puzzle),
                    check_strict_consistency(puzzle))

\* a read-only call: it can be made whenever no call is in progress
Query == /\ last = Idle
         /\ before' = puzzle
         /\ UNCHANGED nops

CheckCandidates ==
    /\ Query
    /\ puzzle' = puzzle
    /\ last' = Done("check_candidate_consistency", <<>>, 0, Exec(puzzle),
                    check_candidate_consistency(puzzle))

GetUnit ==
    /\ Query
    /\ puzzle' = puzzle
    /\ \E unit_ref \in UnitRefInputs :
         \E r \in {get_unit(puzzle, unit_ref)} :
             last' = Done("get_unit", unit_ref, 0, Raise(Exec(puzzle), r.err),
                          [keys |-> r.keys, unit |-> r.unit])

UnitsFor ==
    /\ Query
    /\ puzzle' = puzzle
    /\ \E cell_ref \in CellRefInputs :
         \E r \in {get_units_for_cell(cell_ref)} :
             last' = Done("get_units_for_cell", cell_ref, 0,
                          Raise(Exec(puzzle),
                                IF r.ok THEN "ok" ELSE "InvalidReference"),
                          [row |-> r.row, col |-> r.col, block |-> r.block])

Next ==
    \/ CheckCandidates
    \/ ComputeCandidates
    \/ Assign
    \/ Eliminate
    \/ EliminateCli
    \/ ScanAndAssign
    \/ CheckStrict
    \/ Return

Spec == Init /\ [][Next]_vars

\* the read-only operations on the puzzles clients post
InitQuery ==
    /\ puzzle \in PuzzleInputs
    /\ before = puzzle
    /\ last = Idle
    /\ nops = 0

NextQuery ==
    \/ CheckCandidates
    \/ GetUnit
    \/ UnitsFor
    \/ Return

SpecQuery == InitQuery /\ [][NextQuery]_vars

-----------------------------------------------------------------------------
(* Vocabulary of the properties.  Units are described here by coordinates, *)
(* independently of get_units_for_cell and get_unit.                       *)

Coords == (1..N) \X (1..N)

KeyOf(rc) == CellKey(rc[1], rc[2])

SameRow(a, b) == a[1] = b[1]
SameCol(a, b) == a[2] = b[2]
SameBlock(a, b) ==
    /\ (a[1] - 1) \div B = (b[1] - 1) \div B
    /\ (a[2] - 1) \div B = (b[2] - 1) \div B

SameUnit(a, b) == SameRow(a, b) \/ SameCol(a, b) \/ SameBlock(a, b)

\* the other cells of the row, the column and the block of a cell
PeersOf(rc) == {x \in Coords : x # rc /\ SameUnit(x, rc)}

IsSolved(cell) == cell.value # None

CandSet(cell) == Range(cell.candidates)

\* the digits held by the Solved cells of the row, column and block of rc
SolvedPeerDigits(p, rc) ==
    {p[KeyOf(x)].value : x \in {y \in PeersOf(rc) : IsSolved(p[KeyOf(y)])}}

Unsolved(p) == {k \in DOMAIN p : ~IsSolved(p[k])}

\* the cell the last operation was called on is in the puzzle
TargetPresent == last.cell \in DOMAIN before

TargetCoords == CHOOSE rc \in Coords : KeyOf(rc) = last.cell

MaxDepth(trace) ==
    IF Len(trace) = 0 THEN 0
    ELSE CHOOSE d \in {trace[i].depth : i \in 1..Len(trace)} :
             \A i \in 1..Len(trace) : trace[i].depth <= d

-----------------------------------------------------------------------------
(* Worklist formulation of the cascade *)

\* The cascade written with a queue instead of recursion: the state is the
\* puzzle and the FIFO queue of the cells found with one candidate left.

\* an assignment of the worklist algorithm: the cell becomes Solved, digit is
\* removed from every Unsolved peer, in the order of the units, and each peer
\* thereby left with exactly one candidate is pushed
worklist_place(w, cell_ref, digit) ==
    LET p == SetSolved(w.puzzle, cell_ref, digit)
        unit == UnitTable[cell_ref]
        hit(k) == /\ k # cell_ref
                  /\ k \in DOMAIN p
                  /\ p[k].value = None
                  /\ In(digit, p[k].candidates)
        first == SelectSeq([i \in 1..Len(unit) |-> i],
                           LAMBDA i : /\ hit(unit[i])
                                      /\ \A j \in 1..(i - 1) : unit[j] # unit[i])
    IN  [puzzle |-> [k \in DOMAIN p |->
                        IF hit(k) /\ k \in Range(unit)
                        THEN [p[k] EXCEPT !.candidates = Remove(@, digit)]
                        ELSE p[k]],
         queue |-> w.queue \o
                   SelectSeq([j \in 1..Len(first) |-> unit[first[j]]],
                             LAMBDA k : Len(p[k].candidates) = 2)]

\* one pop: the cell is assigned its candidate if it is still Unsolved with
\* exactly one
worklist_step(w) ==
    IF Len(w.queue) = 0 THEN w
    ELSE LET cell_ref == Head(w.queue)
             cell == w.puzzle[cell_ref]
             rest == [w EXCEPT !.queue = Tail(@)]
         IN  IF cell.value = None /\ Len(cell.candidates) = 1
             THEN worklist_place(rest, cell_ref, cell.candidates[1])
             ELSE rest

\* a cell is pushed when a removal leaves it one candidate, which happens to
\* a cell at most once
WorkCap == N * N

\* k pops (the range is halved, as in assign_run)
RECURSIVE worklist_run(_, _)
worklist_run(w, k) ==
    Bind(w, LAMBDA s :
        IF Len(s.queue) = 0 \/ k <= 0 THEN s
        ELSE IF k = 1 THEN worklist_step(s)
        ELSE worklist_run(worklist_run(s, k \div 2), k - (k \div 2)))

\* the worklist variant of a successful assign(puzzle, cell_ref, digit)
worklist_assign(p, cell_ref, digit) ==
    worklist_run(worklist_place([puzzle |-> p, queue |-> <<>>], cell_ref, digit),
                 WorkCap)

-----------------------------------------------------------------------------
(* Properties *)

\* C1: after compute_candidates every Solved cell keeps its value and has no
\* candidates, and every Unsolved cell stays Unsolved with, as candidates,
\* exactly the digits 1..9 that no Solved cell of its row, column or block
\* holds, each listed once.
C1_ComputeCandidates ==
    last.op = "compute_candidates" =>
        \A rc \in Coords :
            LET old == before[KeyOf(rc)]
                new == puzzle[KeyOf(rc)]
            IN  /\ new.value = old.value
                /\ IsSolved(old) => new.candidates = <<>>
                /\ ~IsSolved(old) =>
                     /\ CandSet(new) = (1..N) \ SolvedPeerDigits(before, rc)
                     /\ Len(new.candidates) = Cardinality(CandSet(new))

\* C1 witness: compute_candidates on the scenario puzzle (row 1 = 5 3 _ _ 7):
\* R1C3 is Unsolved and gets the candidates 1, 2, 4 (not 5, 3 or 7).
C1_Witness ==
    /\ last.op = "compute_candidates"
    /\ before[CellKey(1, 1)].value = 5
    /\ before[CellKey(1, 5)].value = 7
    /\ ~IsSolved(puzzle[CellKey(1, 3)])
    /\ puzzle[CellKey(1, 3)].candidates = <<1, 2, 4>>

\* the precondition of a successful assign or eliminate of a candidate: the
\* cell is in the puzzle, Unsolved, and the digit is one of its candidates
TargetHasCandidate ==
    /\ TargetPresent
    /\ ~IsSolved(before[last.cell])
    /\ last.digit \in CandSet(before[last.cell])

\* C2: an assign on a cell that is present and Unsolved with the digit among
\* its candidates succeeds; on return the cell is Solved with the digit and
\* has no candidates, and no Unsolved cell of its row, column or block has
\* the digit as a candidate.
C2_AssignPost ==
    (last.op = "assign_digit" /\ TargetHasCandidate) =>
        /\ last.err = "ok"
        /\ puzzle[last.cell] = [value |-> last.digit, candidates |-> <<>>]
        /\ \A x \in PeersOf(TargetCoords) :
               ~IsSolved(puzzle[KeyOf(x)]) =>
                   last.digit \notin CandSet(puzzle[KeyOf(x)])

\* C2 witness: a successful assign that removed the digit from a peer in the
\* row, from one in the column and from one in the block of the cell, none
\* of them in two of these units.
C2_Witness ==
    /\ last.op = "assign_digit"
    /\ last.err = "ok"
    /\ \E x, y, z \in PeersOf(TargetCoords) :
           /\ SameRow(x, TargetCoords) /\ ~SameBlock(x, TargetCoords)
           /\ SameCol(y, TargetCoords) /\ ~SameBlock(y, TargetCoords)
           /\ SameBlock(z, TargetCoords)
           /\ ~SameRow(z, TargetCoords) /\ ~SameCol(z, TargetCoords)
           /\ \A w \in {x, y, z} :
                  /\ last.digit \in CandSet(before[KeyOf(w)])
                  /\ ~IsSolved(puzzle[KeyOf(w)])

\* the calls of assign_digit that the last operation made from within
\* assign_digit (the cascade)
CascadeCalls == {i \in 1..Len(last.trace) : last.trace[i].depth > 1}

\* C3: when an assign succeeds, every cascade call it made was on a cell
\* that is Solved with the digit of the call on return, and no cell whose
\* candidates the assign reduced is left Unsolved with exactly one
\* candidate: a peer reduced to one candidate has been assigned it.
C3_Cascade ==
    (last.op = "assign_digit" /\ last.err = "ok") =>
        /\ \A i \in CascadeCalls :
               /\ ~IsSolved(before[last.trace[i].cell])
               /\ last.trace[i].digit \in CandSet(before[last.trace[i].cell])
               /\ puzzle[last.trace[i].cell] =
                      [value |-> last.trace[i].digit, candidates |-> <<>>]
        /\ \A k \in DOMAIN puzzle :
               (~IsSolved(puzzle[k]) /\ Len(puzzle[k].candidates) = 1) =>
                   puzzle[k].candidates = before[k].candidates

\* C3 witness: a successful assign whose cascade went at least two calls
\* deep below the call itself, every cell of the cascade having had two or
\* more candidates before.
C3_Witness ==
    /\ last.op = "assign_digit"
    /\ last.err = "ok"
    /\ MaxDepth(last.trace) >= 3
    /\ \A i \in CascadeCalls : Len(before[last.trace[i].cell].candidates) >= 2

\* the error assign must raise on the puzzle `before`, "ok" if none
AssignOutcome ==
    IF ~TargetPresent THEN "UnknownCell"
    ELSE IF IsSolved(before[last.cell]) THEN "AlreadySolved"
    ELSE IF last.digit \notin CandSet(before[last.cell]) THEN "NotACandidate"
    ELSE "ok"

\* C4: assign fails exactly when the cell is absent (UnknownCell), else when
\* the cell is Solved (AlreadySolved, whatever the digit), else when the
\* digit is not a candidate of the cell (NotACandidate); a failed assign
\* leaves every cell unchanged and makes no cascade call.
C4_AssignFails ==
    last.op = "assign_digit" =>
        /\ last.err = AssignOutcome
        /\ last.err # "ok" => (puzzle = before /\ Len(last.trace) = 1)

\* C4 witness: an assign on a cell that an earlier operation of the run
\* solved (the grid did not give it: the run started with it Unsolved) fails
\* with AlreadySolved.
C4_Witness ==
    /\ last.op = "assign_digit"
    /\ last.err = "AlreadySolved"
    /\ last.cell = CellKey(1, 8)
    /\ before[last.cell].value # Solution[1][8]
    /\ puzzle = before

\* C5: a call of assign returns; if it succeeds the number of Unsolved cells
\* has gone down by one per call of assign_digit made, so by at least one;
\* every call of the cascade was made on a cell Unsolved at that moment;
\* the recursion is never deeper than the number of cells Unsolved before,
\* hence than 81.
C5_AssignTerminates ==
    last.op = "assign_digit" =>
        /\ last.err # "NoTermination"
        /\ \A i \in CascadeCalls : last.trace[i].unsolved
        /\ MaxDepth(last.trace) <= N * N
        /\ last.err = "ok" =>
               /\ Cardinality(Unsolved(puzzle)) < Cardinality(Unsolved(before))
               /\ Cardinality(Unsolved(before)) - Cardinality(Unsolved(puzzle))
                      = Len(last.trace)
               /\ MaxDepth(last.trace) <= Cardinality(Unsolved(before))

\* C5 witness: a successful assign that solved at least ten cells, the
\* recursion at least eight calls deep.
C5_Witness ==
    /\ last.op = "assign_digit"
    /\ last.err = "ok"
    /\ Len(last.trace) >= 10
    /\ MaxDepth(last.trace) >= 8

\* the two copies of eliminate_digit
EliminateOps == {"eliminate_digit", "eliminate_digit_cli"}

\* eliminate of a candidate of an Unsolved cell, by the copy `op`: the digit
\* is removed from the cell and, if one candidate remains, the cell is Solved
\* with it on return
EliminatePost(op) ==
    (last.op = op /\ TargetHasCandidate) =>
        LET rest == Remove(before[last.cell].candidates, last.digit)
        IN  /\ last.err = "ok"
            /\ last.digit \notin CandSet(puzzle[last.cell])
            /\ Len(rest) # 1 =>
                   puzzle[last.cell] = [value |-> None, candidates |-> rest]
            /\ Len(rest) = 1 =>
                   /\ puzzle[last.cell] = [value |-> rest[1], candidates |-> <<>>]
                   /\ \A x \in PeersOf(TargetCoords) :
                          ~IsSolved(puzzle[KeyOf(x)]) =>
                              rest[1] \notin CandSet(puzzle[KeyOf(x)])

\* C6: an eliminate of a candidate of an Unsolved cell removes the digit from
\* the cell and, if exactly one candidate remains, assigns it to the cell
\* (with the peer elimination of assign), so that the cell is Solved with it
\* on return; this for eliminate_digit of both copies of the core.
C6_EliminateAssigns == \A op \in EliminateOps : EliminatePost(op)

\* C7: an eliminate, by either copy, of a digit that is not a candidate of
\* an Unsolved cell raises nothing, makes no assignment and leaves every
\* cell of the puzzle as it was, also when the cell has one candidate or
\* none.
C7_EliminateAbsent ==
    ( /\ last.op \in EliminateOps
      /\ TargetPresent
      /\ ~IsSolved(before[last.cell])
      /\ last.digit \notin CandSet(before[last.cell]) ) =>
        /\ last.err = "ok"
        /\ puzzle = before
        /\ last.trace = <<>>

\* C7 witness: eliminate_digit of the backend called with a digit that is
\* not the one candidate of an Unsolved cell.
C7_Witness ==
    /\ last.op = "eliminate_digit"
    /\ TargetPresent
    /\ ~IsSolved(before[last.cell])
    /\ Len(before[last.cell].candidates) = 1
    /\ last.digit # before[last.cell].candidates[1]
    /\ ~IsSolved(puzzle[last.cell])

\* the error eliminate must raise on the puzzle `before`, "ok" if none
EliminateOutcome ==
    IF ~TargetPresent THEN "UnknownCell"
    ELSE IF IsSolved(before[last.cell]) THEN "CannotEliminateSolved"
    ELSE "ok"

\* C8: an eliminate, by either copy, fails with UnknownCell when the cell is
\* absent from the puzzle and with CannotEliminateSolved when the cell is
\* Solved, and with nothing else; when it fails no cell has changed.
C8_EliminateFails ==
    last.op \in EliminateOps =>
        /\ last.err = EliminateOutcome
        /\ last.err # "ok" => (puzzle = before /\ last.trace = <<>>)

\* C8 witness: eliminate_digit of the backend refused on a cell that is
\* Solved with another digit, the puzzle having Unsolved cells with
\* candidates.
C8_Witness ==
    /\ last.op = "eliminate_digit"
    /\ last.err = "CannotEliminateSolved"
    /\ last.digit # before[last.cell].value
    /\ \E k \in Unsolved(before) : before[k].candidates # <<>>
    /\ puzzle = before

\* C9: scan_and_assign returns, after at most one sweep per cell and one
\* more, without an error; on return no Unsolved cell has exactly one
\* candidate, and every call of assign_digit it made was on an Unsolved cell.
C9_ScanAndAssign ==
    last.op = "scan_and_assign" =>
        /\ last.err = "ok"
        /\ last.sweeps <= N * N + 1
        /\ \A k \in DOMAIN puzzle :
               ~(~IsSolved(puzzle[k]) /\ Len(puzzle[k].candidates) = 1)
        /\ \A i \in 1..Len(last.trace) : last.trace[i].unsolved
        /\ Cardinality(Unsolved(before)) - Cardinality(Unsolved(puzzle))
               = Len(last.trace)

\* C9 witness: a scan_and_assign that made two sweeps, found single
\* candidates in the last row of the grid and left cells Unsolved.
C9_Witness ==
    /\ last.op = "scan_and_assign"
    /\ last.sweeps = 2
    /\ \E c \in 1..N :
           /\ ~IsSolved(before[CellKey(N, c)])
           /\ Len(before[CellKey(N, c)].candidates) = 1
           /\ IsSolved(puzzle[CellKey(N, c)])
    /\ Unsolved(puzzle) # {}

\* the 27 units as sets of coordinates
UnitSets ==
    {{rc \in Coords : rc[1] = i} : i \in 1..N}
      \cup {{rc \in Coords : rc[2] = i} : i \in 1..N}
      \cup {{rc \in Coords : ((rc[1] - 1) \div B) * B + ((rc[2] - 1) \div B) + 1 = i} :
               i \in 1..N}

\* the 27 units as sets of keys
UnitKeySets == {{KeyOf(rc) : rc \in u} : u \in UnitSets}

\* no unit holds a digit in two Solved cells
NoDuplicate(p) ==
    \A u \in UnitKeySets :
        \A a \in u :
            LET v == p[a].value
            IN  v # None => \A b \in u \ {a} : p[b].value # v

\* every cell is Solved and every row, column and block holds each of 1..9
FullySolved(p) ==
    /\ \A a \in Coords : p[KeyOf(a)].value \in 1..N
    /\ NoDuplicate(p)

\* C10: check_strict_consistency returns True exactly when no row, column
\* or block holds a digit in two Solved cells, so True on a fully solved
\* grid, and it leaves the puzzle as it was.
C10_CheckStrict ==
    last.op = "check_strict_consistency" =>
        /\ last.result <=> NoDuplicate(before)
        /\ FullySolved(before) => last.result
        /\ puzzle = before

\* C10 witness: False on a grid whose only duplicate is in a block, the two
\* cells in different rows and columns.
C10_Witness ==
    /\ last.op = "check_strict_consistency"
    /\ ~last.result
    /\ \A a, b \in Coords :
           ( /\ a # b
             /\ IsSolved(before[KeyOf(a)])
             /\ before[KeyOf(a)].value = before[KeyOf(b)].value )
           => (~SameRow(a, b) /\ ~SameCol(a, b))
    /\ Unsolved(before) # {}

\* digit d is held by a Solved cell of the unit u, or is a candidate of an
\* Unsolved cell of u
CoveredIn(p, u, d) ==
    \/ \E x \in u : p[KeyOf(x)].value = d
    \/ \E x \in u : ~IsSolved(p[KeyOf(x)]) /\ d \in CandSet(p[KeyOf(x)])

\* C11: check_candidate_consistency returns True exactly when in every one
\* of the 27 units every digit 1..9 is held by a Solved cell or is a
\* candidate of an Unsolved cell, candidates listed on Solved cells not
\* counting; it leaves the puzzle as it was.
C11_CandidateCoverage ==
    last.op = "check_candidate_consistency" =>
        /\ last.result <=> \A u \in UnitSets : \A d \in 1..N : CoveredIn(before, u, d)
        /\ puzzle = before

\* C11 witness: False on a puzzle where a digit that no cell of row 1 holds
\* has been struck from every Unsolved cell of the row and is listed only on
\* a Solved cell of it.
C11_Witness ==
    /\ last.op = "check_candidate_consistency"
    /\ ~last.result
    /\ \E d \in 1..N :
           LET u == {rc \in Coords : rc[1] = 1}
           IN  /\ ~CoveredIn(before, u, d)
               /\ \E x \in u : /\ IsSolved(before[KeyOf(x)])
                               /\ d \in CandSet(before[KeyOf(x)])
               /\ \E x \in u : /\ ~IsSolved(before[KeyOf(x)])
                               /\ before[KeyOf(x)].candidates # <<>>

\* the unit references of the grammar: a letter R, C or B in either case
\* followed by one digit 1..9
UnitTags == {"R", "C", "B", "r", "c", "b"}

UnitGrammar == {<<t, DigitChars[i + 1]>> : t \in UnitTags, i \in 1..N}

\* the members of the unit a reference of the grammar names, in row-major
\* order
MembersOf(unit_ref) ==
    LET i == DigitVal(unit_ref[2])
        r0 == ((i - 1) \div B) * B + 1
        c0 == ((i - 1) % B) * B + 1
    IN  IF unit_ref[1] \in {"R", "r"} THEN [c \in 1..N |-> KeyOf(<<i, c>>)]
        ELSE IF unit_ref[1] \in {"C", "c"} THEN [r \in 1..N |-> KeyOf(<<r, i>>)]
        ELSE [n \in 1..N |-> KeyOf(<<r0 + ((n - 1) \div B), c0 + ((n - 1) % B)>>)]

\* C12: on a puzzle of 81 cells get_unit returns, for a reference R1..R9,
\* C1..C9, B1..B9 in either case, exactly the 9 cells of that row, column or
\* 3x3 tile, each mapped to its cell of the puzzle, and the members form one
\* of the 27 units; the puzzle is left as it was.
C12_GetUnit ==
    (last.op = "get_unit" /\ last.cell \in UnitGrammar) =>
        /\ last.err = "ok"
        /\ last.result.keys = MembersOf(last.cell)
        /\ Range(last.result.keys) \in {{KeyOf(x) : x \in u} : u \in UnitSets}
        /\ last.result.unit = [k \in Range(MembersOf(last.cell)) |-> before[k]]
        /\ puzzle = before

\* C12 witness: get_unit of "b5" returns R4C4..R6C6, some of them Solved and
\* some Unsolved with candidates.
C12_Witness ==
    /\ last.op = "get_unit"
    /\ last.cell = <<"b", "5">>
    /\ last.result.keys =
           <<CellKey(4, 4), CellKey(4, 5), CellKey(4, 6),
             CellKey(5, 4), CellKey(5, 5), CellKey(5, 6),
             CellKey(6, 4), CellKey(6, 5), CellKey(6, 6)>>
    /\ \E k \in DOMAIN last.result.unit : IsSolved(last.result.unit[k])
    /\ \E k \in DOMAIN last.result.unit :
           /\ ~IsSolved(last.result.unit[k])
           /\ Len(last.result.unit[k].candidates) > 1

\* the indices i in 1..9 of the units of the given tag that get_unit returns
\* with the key k among their members
UnitsHolding(p, tag, k) ==
    {i \in 1..N : k \in Range(get_unit(p, UnitRef(tag, i)).keys)}

\* C13: for a cell (r, c) of the grid get_units_for_cell returns a row, a
\* column and a block of 9 distinct keys each, every one holding the cell;
\* they are the members get_unit returns for R r, C c and B k with
\* k = 3 * ((r - 1) / 3) + ((c - 1) / 3) + 1, and no other row, column or
\* block of get_unit holds the cell.
C13_UnitsFor ==
    (last.op = "get_units_for_cell" /\ last.cell \in {KeyOf(rc) : rc \in Coords}) =>
        LET r == TargetCoords[1]
            c == TargetCoords[2]
            k == B * ((r - 1) \div B) + ((c - 1) \div B) + 1
            units == last.result
        IN  /\ last.err = "ok"
            /\ \A lst \in {units.row, units.col, units.block} :
                   /\ Len(lst) = N
                   /\ Cardinality(Range(lst)) = N
                   /\ last.cell \in Range(lst)
            /\ units.row = get_unit(before, UnitRef("R", r)).keys
            /\ units.col = get_unit(before, UnitRef("C", c)).keys
            /\ units.block = get_unit(before, UnitRef("B", k)).keys
            /\ UnitsHolding(before, "R", last.cell) = {r}
            /\ UnitsHolding(before, "C", last.cell) = {c}
            /\ UnitsHolding(before, "B", last.cell) = {k}
            /\ {Range(units.row), Range(units.col), Range(units.block)}
                   = {{KeyOf(x) : x \in u} : u \in {v \in UnitSets : TargetCoords \in v}}

\* C13 witness: get_units_for_cell of R5C9 returns row 5, column 9 and the
\* block R4C7..R6C9, which is B6.
C13_Witness ==
    /\ last.op = "get_units_for_cell"
    /\ last.cell = CellKey(5, 9)
    /\ last.result.block =
           <<CellKey(4, 7), CellKey(4, 8), CellKey(4, 9),
             CellKey(5, 7), CellKey(5, 8), CellKey(5, 9),
             CellKey(6, 7), CellKey(6, 8), CellKey(6, 9)>>
    /\ last.result.block = get_unit(before, UnitRef("B", 6)).keys
    /\ last.result.row[1] = CellKey(5, 1)
    /\ last.result.col[1] = CellKey(1, 9)

\* a unit reference with a tag other than R, C, B, or with a decimal index
\* outside 1..9
OutsideUnitGrammar(unit_ref) ==
    LET rest == SubSeq(unit_ref, 2, Len(unit_ref))
    IN  /\ Len(unit_ref) >= 2
        /\ \/ unit_ref[1] \notin UnitTags
           \/ /\ DigitRun(rest, 1) = Len(rest)
              /\ StrToInt(rest) \notin 1..N

\* C14: get_unit fails with InvalidUnitReference for every reference whose
\* tag is not R, C or B or whose index is outside 1..9 (R0, R10, C12, B0,
\* B10), and returns no mapping for it.
C14_GetUnitRejects ==
    (last.op = "get_unit" /\ OutsideUnitGrammar(last.cell)) =>
        last.err = "InvalidUnitReference"

\* the outcomes of get_unit observed on the source for references outside
\* the grammar: the model reproduces them
GetUnitObserved ==
    LET out(ref) == get_unit(puzzle, ref)
    IN  /\ \A ref \in {UnitRef("R", 0), UnitRef("R", N + 1), <<"C", "1", "2">>,
                       UnitRef("B", 0), UnitRef("B", N + 1), <<"R", "-", "1">>,
                       <<"B", "1", "_", "0">>} :
               out(ref).err = "ok" /\ out(ref).keys = <<>>
        /\ \A ref \in {<<"X", "1">>, <<"R">>, <<"R", "1", "x">>, <<"B", "_", "1">>} :
               out(ref).err = "InvalidUnitReference"
        /\ \A ref \in {<<"R", "+", "5">>, <<"R", " ", "5">>, <<"r", "0", "5">>} :
               out(ref).keys = [c \in 1..N |-> CellKey(5, c)]

\* C15: get_units_for_cell fails with InvalidReference for every identifier
\* that is not exactly R<1-9>C<1-9> (a row or column of 0 or of 10 and more,
\* characters after a valid prefix), and returns no unit lists for it.
C15_UnitsForRejects ==
    (last.op = "get_units_for_cell" /\ last.cell \notin {KeyOf(rc) : rc \in Coords}) =>
        last.err = "InvalidReference"

\* the outcomes of get_units_for_cell observed on the source for identifiers
\* outside the grid: the model reproduces them
UnitsForObserved ==
    LET out(ref) == get_units_for_cell(ref)
    IN  /\ out(CellKey(0, 5)).ok
        /\ out(CellKey(0, 5)).block[1] = <<"R", "-", "2", "C", "4">>
        /\ out(CellKey(10, 1)).ok
        /\ out(CellKey(10, 1)).block[1] = <<"R", "1", "0", "C", "1">>
        /\ out(CellKey(1, 12)).ok
        /\ out(CellKey(1, 12)).block[1] = <<"R", "1", "C", "1", "0">>
        /\ out(CellKey(1, 1) \o <<"x">>) = out(CellKey(1, 1))
        /\ out(<<"R", "0", "1", "C", "1">>) = out(CellKey(1, 1))
        /\ out(CellKey(1, 1) \o <<"0">>).col[1] = <<"R", "1", "C", "1", "0">>
        /\ \A ref \in {<<"R", "5">>, <<"R", "1", "C">>, <<"x">> \o CellKey(1, 1),
                       <<"r", "1", "c", "1">>, <<>>} : ~out(ref).ok

\* the pairs <<key of a cell, keys of its peers>>, by coordinates, for the
\* cells 1..n in row-major order
RECURSIVE PeerList(_)
PeerList(n) ==
    IF n = 0 THEN <<>>
    ELSE LET rc == <<((n - 1) \div N) + 1, ((n - 1) % N) + 1>>
         IN  Append(PeerList(n - 1), <<KeyOf(rc), {KeyOf(x) : x \in PeersOf(rc)}>>)

PeerKeys == PeerList(N * N)

\* candidate soundness: no Unsolved cell has as a candidate a digit that a
\* Solved cell of its row, column or block holds
Sound(p) ==
    \A u \in UnitKeySets :
        LET held == {p[k].value : k \in u} \ {None}
        IN  \A k \in u :
                LET cell == p[k]
                IN  ~IsSolved(cell) =>
                        \A j \in 1..Len(cell.candidates) :
                            cell.candidates[j] \notin held

\* C16: candidate soundness holds whenever no call is in progress: before
\* compute_candidates no cell has a candidate, compute_candidates
\* establishes it, and every call of assign_digit, eliminate_digit,
\* scan_and_assign or compute_candidates, successful or failing, leaves a
\* puzzle that satisfies it.
C16_Soundness == Sound(puzzle)

\* C16 witness: a successful assign with a cascade has removed candidates,
\* and Unsolved cells with candidates are left.
C16_Witness ==
    /\ last.op = "assign_digit"
    /\ last.err = "ok"
    /\ Len(last.trace) >= 2
    /\ \E k \in Unsolved(puzzle) :
           /\ puzzle[k].candidates # <<>>
           /\ puzzle[k].candidates # before[k].candidates

\* C17: whenever no call is in progress every Solved cell has an empty list
\* of candidates, and the candidates of every cell are digits of 1..9, none
\* listed twice.
C17_CellShape ==
    \A k \in DOMAIN puzzle :
        LET cell == puzzle[k]
        IN  /\ IsSolved(cell) => cell.candidates = <<>>
            /\ cell.candidates # <<>> =>
                   /\ CandSet(cell) \subseteq 1..N
                   /\ Cardinality(CandSet(cell)) = Len(cell.candidates)

\* C17 witness: scan_and_assign has solved cells that had candidates, by a
\* cascade, and has left Unsolved cells with two candidates or more.
C17_Witness ==
    /\ last.op = "scan_and_assign"
    /\ MaxDepth(last.trace) >= 2
    /\ \A i \in 1..Len(last.trace) :
           /\ before[last.trace[i].cell].candidates # <<>>
           /\ puzzle[last.trace[i].cell].candidates = <<>>
    /\ \E k \in Unsolved(puzzle) : Len(puzzle[k].candidates) >= 2

\* the operations of the mutation engine
MutationOps ==
    {"assign_digit", "eliminate_digit", "eliminate_digit_cli", "scan_and_assign"}

\* C18: on a puzzle in which no unit holds a digit in two Solved cells and
\* which satisfies candidate soundness, a successful assign_digit,
\* eliminate_digit or scan_and_assign, cascade included, returns a puzzle in
\* which no unit holds a digit in two Solved cells.
C18_StrictPreserved ==
    ( /\ last.op \in MutationOps
      /\ last.err = "ok"
      /\ NoDuplicate(before)
      /\ Sound(before) ) =>
        NoDuplicate(puzzle)

\* C19: in a puzzle reached from a compute_candidates state by assign_digit,
\* eliminate_digit and scan_and_assign calls (some cell lists candidates,
\* which only compute_candidates writes) in which an Unsolved cell has no
\* candidate, check_candidate_consistency returns False.
C19_ZeroDetected ==
    ( /\ last.op = "check_candidate_consistency"
      /\ \E k \in DOMAIN before : before[k].candidates # <<>>
      /\ \E k \in Unsolved(before) : before[k].candidates = <<>> ) =>
        ~last.result

\* the cells that the last operation left Unsolved without a candidate,
\* having removed their last one
Zeroed ==
    {k \in DOMAIN puzzle :
        /\ ~IsSolved(before[k]) /\ before[k].candidates # <<>>
        /\ ~IsSolved(puzzle[k]) /\ puzzle[k].candidates = <<>>}

\* the keys of the peers of the cell with key k
PeersOfKey(k) ==
    PeerKeys[CHOOSE i \in 1..Len(PeerKeys) : PeerKeys[i][1] = k][2]

\* C20: when a removal made by assign_digit on a peer, or by eliminate_digit
\* on its target, leaves an Unsolved cell without a candidate, the call
\* raises nothing and returns normally; the cell stays Unsolved with an empty
\* list, and the peer elimination and the cascade are complete: every cell
\* assigned holds its digit, no Unsolved peer of it lists that digit, and no
\* cell reduced to one candidate is left Unsolved; an eliminate that removes
\* the last candidate of its target changes nothing else.
C20_ZeroCandidates ==
    ( /\ last.op \in {"assign_digit", "eliminate_digit", "eliminate_digit_cli"}
      /\ Zeroed # {} ) =>
        /\ last.err = "ok"
        /\ \A i \in 1..Len(last.trace) :
               /\ puzzle[last.trace[i].cell].value = last.trace[i].digit
               /\ \A q \in PeersOfKey(last.trace[i].cell) :
                      ~IsSolved(puzzle[q]) =>
                          last.trace[i].digit \notin CandSet(puzzle[q])
        /\ \A k \in Unsolved(puzzle) :
               Len(puzzle[k].candidates) = 1 =>
                   puzzle[k].candidates = before[k].candidates
        /\ (last.op # "assign_digit" /\ last.cell \in Zeroed) =>
               /\ before[last.cell].candidates = <<last.digit>>
               /\ puzzle = [before EXCEPT ![last.cell].candidates = <<>>]

\* C20 witness: an assign whose removals left a cell without a candidate and
\* went on to remove the digit from later peers and to cascade.
C20_Witness ==
    /\ last.op = "assign_digit"
    /\ last.err = "ok"
    /\ Zeroed # {}
    /\ Len(last.trace) >= 2
    /\ \E k \in Zeroed : \E i \in 1..Len(UnitTable[last.cell]) :
           /\ UnitTable[last.cell][i] = k
           /\ \E j \in (i + 1)..Len(UnitTable[last.cell]) :
                  LET q == UnitTable[last.cell][j]
                  IN  /\ last.digit \in CandSet(before[q])
                      /\ last.digit \notin CandSet(puzzle[q])


\* C21: across any assign, eliminate or scanAndAssign call, successful or
\* failing, every cell's candidate set afterwards is a subset of its
\* candidate set before, and every cell that was Solved before keeps its
\* value (so a Solved cell never becomes Unsolved)
C21_Monotone ==
    last.op \in MutationOps =>
        /\ DOMAIN puzzle = DOMAIN before
        /\ \A k \in DOMAIN before :
              puzzle[k] # before[k] =>
                  /\ CandSet(puzzle[k]) \subseteq CandSet(before[k])
                  /\ IsSolved(before[k]) => puzzle[k].value = before[k].value

\* an assign that cascaded: a cell other than the target was solved on the
\* way, some cell lost candidates and stayed Unsolved, and cells were Solved
\* before the call
C21_Witness ==
    /\ last.op = "assign_digit"
    /\ last.err = "ok"
    /\ \E k \in DOMAIN before \ {last.cell} :
          ~IsSolved(before[k]) /\ IsSolved(puzzle[k])
    /\ \E k \in DOMAIN before :
          /\ ~IsSolved(puzzle[k])
          /\ CandSet(puzzle[k]) # CandSet(before[k])
    /\ \E k \in DOMAIN before : IsSolved(before[k])


\* the puzzle with the same values and the candidate list cands in every cell
Repencil(p, cands) == [k \in DOMAIN p |-> [p[k] EXCEPT !.candidates = cands]]

\* candidate lists that differ from whatever the puzzle holds
Pencils == {<<>>, <<9>>, <<2, 1>>, <<1, 2, 3, 4, 5, 6, 7, 8, 9>>}

\* C22: computeCandidates depends only on the Solved values: puzzles with
\* the same value in every cell and other candidate lists give the same
\* result, a second call changes nothing, and an Unsolved cell gets back
\* every digit that no Solved peer holds, whatever was removed before
C22_ComputeFromValues ==
    last.op = "compute_candidates" =>
        /\ last.err = "ok"
        /\ \A cands \in Pencils :
              compute_candidates(Repencil(before, cands)) = puzzle
        /\ compute_candidates(puzzle) = puzzle
        /\ \A i \in 1..Len(PeerKeys) :
              LET k == PeerKeys[i][1]
              IN  ~IsSolved(before[k]) =>
                      \A d \in 1..N :
                          (\A q \in PeerKeys[i][2] : before[q].value # d)
                              => In(d, puzzle[k].candidates)

\* computeCandidates after a removal: a cell that was Unsolved with
\* candidates gets back a digit it had lost
C22_Witness ==
    /\ last.op = "compute_candidates"
    /\ \E k \in DOMAIN before :
          /\ ~IsSolved(before[k])
          /\ before[k].candidates # <<>>
          /\ CandSet(puzzle[k]) \ CandSet(before[k]) # {}


\* the same eliminate called once more on the puzzle the last call left
EliminateAgain ==
    IF last.op = "eliminate_digit"
    THEN eliminate_digit(Exec(puzzle), last.cell, last.digit)
    ELSE eliminate_digit_cli(Exec(puzzle), last.cell, last.digit)

\* C23: eliminate is idempotent: after eliminate on an Unsolved cell, a
\* second call with the same cell and digit raises no error and leaves the
\* puzzle as the first call left it
C23_EliminateIdempotent ==
    (/\ last.op \in EliminateOps
     /\ TargetPresent
     /\ ~IsSolved(before[last.cell]))
        => /\ last.err = "ok"
           /\ EliminateAgain.err = "ok"
           /\ EliminateAgain.puzzle = puzzle


\* C23 as amended: a second eliminate with the same cell and digit never
\* changes the puzzle; it raises no error when the first call left the cell
\* Unsolved, and fails with CannotEliminateSolved when the first call
\* assigned the cell its last candidate
C23_EliminateTwice ==
    (/\ last.op \in EliminateOps
     /\ TargetPresent
     /\ ~IsSolved(before[last.cell]))
        => /\ last.err = "ok"
           /\ EliminateAgain.puzzle = puzzle
           /\ EliminateAgain.err = IF IsSolved(puzzle[last.cell])
                                   THEN "CannotEliminateSolved"
                                   ELSE "ok"

\* eliminate took a candidate from a cell that stays Unsolved with at least
\* two candidates, and the second call is accepted
C23_Witness ==
    /\ last.op = "eliminate_digit"
    /\ last.err = "ok"
    /\ TargetPresent
    /\ In(last.digit, before[last.cell].candidates)
    /\ ~IsSolved(puzzle[last.cell])
    /\ Len(puzzle[last.cell].candidates) >= 2
    /\ EliminateAgain.err = "ok"


\* C24: the recursive cascade of assign is equivalent to the worklist
\* algorithm: for every puzzle satisfying candidate soundness and every
\* successful assign, the final puzzle is the one the worklist variant
\* produces, with nothing left on its queue
C24_WorklistEquivalent ==
    (/\ last.op = "assign_digit"
     /\ last.err = "ok"
     /\ Sound(before))
        => LET w == worklist_assign(before, last.cell, last.digit)
           IN  w.queue = <<>> /\ w.puzzle = puzzle

====
